---- MODULE Spec2Model ----
(***************************************************************************)
(* A model of the filter update engine and the annoyances consent tracker  *)
(* of the AdGuard browser extension:                                       *)
(*   - AnnoyancesConsentApi / AnnoyancesConsentStorage (consent tracker),  *)
(*   - FilterUpdateApi (decision engine and orchestrator),                 *)
(*   - FilterPatchUpdateService (patch executor and scheduler).            *)
(* All of them live in src/Extension/src/background/storages/              *)
(* annoyances-consent.ts.  Collaborators whose code is not part of the     *)
(* sources (StringStorage, filterVersionStorage, the per-filter            *)
(* updateFilter of CommonFilterApi / CustomFilterApi, Engine) are modelled *)
(* at their boundary.                                                      *)
(***************************************************************************)
EXTENDS Integers, Sequences, FiniteSets, TLC

VARIABLES
    \* ---- consent tracker ----
    consentedFilterIds,  \* AnnoyancesConsentApi.consentedFilterIds: null or a Set (insertion ordered)
    storageData,         \* annoyancesConsentStorage.data, the storage object's cache
    durable,             \* the value kept under ANNOYANCES_CONSENT_KEY in the key/value storage
    calls,               \* the consent calls in flight, one record per slot
    readCount,           \* history: number of reads of the consent key
    granted,             \* history: ids passed to addFilterIds calls
    resetCalled,         \* history: reset() has been called
    overlapped,          \* history: a call was started while another one was in flight
    durable0,            \* history: the stored value at construction
    storageCall,         \* history: the last call of AnnoyancesConsentStorage.addFilterIds
    grantedSinceReset,   \* history: ids passed to addFilterIds calls since the last reset()
    \* ---- version store, clock and settings ----
    filterVersions,      \* filterVersionStorage data: filter id -> FilterVersionRecord (or none)
    now,                 \* Date.now(), in milliseconds
    updatePeriod,        \* settingsStorage.get(SettingOption.FiltersUpdatePeriod)
    filteringDisabled,   \* settingsStorage.get(SettingOption.DisableFiltering)
    installed,           \* FiltersApi.getInstalledAndEnabledFiltersIds()
    \* ---- decision engine, applied as pure functions ----
    sel,                 \* the last selection made: its name, its input and its result
    \* ---- update orchestrator ----
    cycles,              \* the update cycles of FilterUpdateApi in flight, one record per caller
    \* ---- patch executor ----
    patch,               \* the cycle of FilterPatchUpdateService.update and its tasks
    filters,             \* FiltersStorage: filter id -> resolved content
    rawFilters,          \* RawFiltersStorage: filter id -> content before directive resolution
    customMetadata,      \* customFilterMetadataStorage: the custom filters that have metadata
    \* ---- downstream rule engine ----
    engine               \* Engine: debounceUpdate calls of the open window, all calls, rebuilds

consentVars == <<consentedFilterIds, storageData, durable, calls,
                 readCount, granted, resetCalled, overlapped, durable0, storageCall,
                 grantedSinceReset>>

engineVars == <<filterVersions, now, updatePeriod, filteringDisabled, installed>>

patchVars == <<patch, filters, rawFilters, customMetadata>>

vars == <<consentVars, engineVars, sel, cycles, patchVars, engine>>

-----------------------------------------------------------------------------
(* Bounds of the model *)

NumConsentIds == 2
MaxMinutes == 6
MaxTicks == 1

ConsentIds == 1..NumConsentIds

-----------------------------------------------------------------------------
(* JavaScript arrays and insertion-ordered Sets, as sequences *)

SeqToSet(s) == {s[i] : i \in DOMAIN s}

NoDup(s) == \A i, j \in DOMAIN s : s[i] = s[j] => i = j

\* Array.prototype.includes / Set.prototype.has
Includes(s, x) == x \in SeqToSet(s)

\* Set.prototype.add: a new member goes to the end, an old one stays in place
SetAdd(s, x) == IF Includes(s, x) THEN s ELSE Append(s, x)

RECURSIVE AddAll(_, _)
AddAll(s, arr) ==
    IF arr = <<>> THEN s ELSE AddAll(SetAdd(s, Head(arr)), Tail(arr))

\* new Set(array)
NewSet(arr) == AddAll(<<>>, arr)

Null == [null |-> TRUE, ids |-> <<>>]
Some(ids) == [null |-> FALSE, ids |-> ids]

\* The arrays passed to addFilterIds: one or two ids, a repeated id included
ArgLists ==
    {<<a>> : a \in ConsentIds}
        \cup {p \in {<<a, b>> : a, b \in ConsentIds} : p[1] <= p[2]}

\* Lists without repeats, as the tracker itself writes them
RECURSIVE ListsOver(_)
ListsOver(S) ==
    {<<>>} \cup UNION {{<<x>> \o l : l \in ListsOver(S \ {x})} : x \in S}

-----------------------------------------------------------------------------
(* Consent tracker: AnnoyancesConsentStorage and AnnoyancesConsentApi *)

Stored(ids) == [kind |-> "list", ids |-> ids]

\* The stored values that getFromStorage cannot use: nothing under the key, a
\* value that is not a string, a string that is not JSON, JSON that is not a
\* list of numbers
MalformedKinds == {"absent", "notString", "badJson", "badShape"}

\* What the key may hold when the tracker is constructed: a malformed value or
\* a list the tracker wrote earlier
StoredValues ==
    {[kind |-> k, ids |-> <<>>] : k \in MalformedKinds}
        \cup {Stored(l) : l \in ListsOver(ConsentIds)}

\* Ids and arrays handed to AnnoyancesConsentStorage.addFilterIds directly
StorageIds == 1..(NumConsentIds + 1)

StorageArgs ==
    {<<>>} \cup {<<a>> : a \in StorageIds} \cup {<<a, b>> : a, b \in StorageIds}

NoStorageCall == [op |-> "none", arg |-> <<>>, before |-> Null, threw |-> FALSE]

\* A variant of PushMissing that pushes every id
PushMissing_All(data, filterIds) == data \o filterIds

\* AnnoyancesConsentStorage.addFilterIds: the forEach that pushes the ids
\* this.data does not include
RECURSIVE PushMissing(_, _)
PushMissing(data, filterIds) ==
    IF filterIds = <<>>
    THEN data
    ELSE PushMissing(IF Includes(data, Head(filterIds))
                     THEN data
                     ELSE Append(data, Head(filterIds)),
                     Tail(filterIds))

\* AnnoyancesConsentStorage.addFilterIds(filterIds): throws when this.data is
\* not set, else pushes into this.data; nothing is saved under the key
StorageAddFilterIds(filterIds) ==
    /\ storageCall' = [op |-> "addFilterIds", arg |-> filterIds,
                       before |-> storageData, threw |-> storageData.null]
    /\ storageData' = IF storageData.null
                      THEN storageData
                      ELSE Some(PushMissing(storageData.ids, filterIds))
    /\ UNCHANGED <<consentedFilterIds, durable, calls, readCount, granted, resetCalled,
                   overlapped, durable0, grantedSinceReset>>
    /\ UNCHANGED <<engineVars, sel, cycles, patchVars, engine>>

IdleCall == [op |-> "idle", arg |-> <<>>, pc |-> "idle", data |-> <<>>]

\* Two callers of the tracker, whose calls may overlap at the awaits
Slots == {1, 2}

AllIdle == \A s \in Slots : calls[s].op = "idle"

\* A new call takes the first free slot (the slots are interchangeable)
FreeSlot(s) ==
    /\ calls[s].op = "idle"
    /\ \A r \in Slots : r < s => calls[r].op # "idle"

\* getFromStorage: the array it returns for a stored value
GetFromStorageData(d) == IF d.kind = "list" THEN d.ids ELSE <<>>

\* A variant of GetFromStorageDurable that never rewrites the key
GetFromStorageDurable_NoRepair(d) == d

\* getFromStorage: setCache(data) leaves the key alone, setData([]) rewrites it
GetFromStorageDurable(d) == IF d.kind = "list" THEN d ELSE Stored(<<>>)

\* A variant of AddFilterIdsToSet that keeps only the ids of this call
AddFilterIdsToSet_Replace(set, filterIds) ==
    IF set.null THEN set ELSE Some(NewSet(filterIds))

\* addFilterIds: filterIds.forEach((id) => this.consentedFilterIds?.add(id))
AddFilterIdsToSet(set, filterIds) ==
    IF set.null THEN set ELSE Some(AddAll(set.ids, filterIds))

\* addFilterIds: Array.from(this.consentedFilterIds || [])
ArrayFromSet(set) == IF set.null THEN <<>> ELSE set.ids

\* restoreConsentedFilterIds: this.consentedFilterIds = new Set(stored)
RestoredSet(data) == Some(NewSet(data))

\* The tail of addFilterIds, after the set is known to be materialized:
\* add the ids, then annoyancesConsentStorage.setData(Array.from(set))
AddAndFlush(filterIds) ==
    LET set == AddFilterIdsToSet(consentedFilterIds, filterIds)
    IN  /\ consentedFilterIds' = set
        /\ storageData' = Some(ArrayFromSet(set))
        /\ durable' = Stored(ArrayFromSet(set))

ConsentHistory(isAdd, ids, isReset) ==
    /\ granted' = IF isAdd THEN granted \cup SeqToSet(ids) ELSE granted
    /\ resetCalled' = (resetCalled \/ isReset)
    /\ overlapped' = (overlapped \/ ~AllIdle)
    /\ grantedSinceReset' = IF isReset THEN {}
                            ELSE IF isAdd THEN grantedSinceReset \cup SeqToSet(ids)
                            ELSE grantedSinceReset
    /\ UNCHANGED <<durable0, storageCall>>

\* addFilterIds(filterIds), up to its first await (or to its end when the set
\* is already materialized)
AddFilterIdsCall(s, filterIds) ==
    /\ FreeSlot(s)
    /\ IF consentedFilterIds.null
       THEN /\ calls' = [calls EXCEPT ![s] =
                            [op |-> "add", arg |-> filterIds,
                             pc |-> "getFromStorage", data |-> <<>>]]
            /\ UNCHANGED <<consentedFilterIds, storageData, durable>>
       ELSE /\ AddAndFlush(filterIds)
            /\ UNCHANGED calls
    /\ ConsentHistory(TRUE, filterIds, FALSE)
    /\ UNCHANGED readCount

\* isConsentedFilter(id), up to its first await (or to its end)
IsConsentedFilterCall(s, id) ==
    /\ FreeSlot(s)
    /\ calls' = IF consentedFilterIds.null
                THEN [calls EXCEPT ![s] =
                         [op |-> "has", arg |-> <<>>,
                          pc |-> "getFromStorage", data |-> <<>>]]
                ELSE calls
    /\ ConsentHistory(FALSE, <<>>, FALSE)
    /\ UNCHANGED <<consentedFilterIds, storageData, durable, readCount>>

\* static reset(): await annoyancesConsentStorage.setData([])
ResetCall ==
    /\ storageData' = Some(<<>>)
    /\ durable' = Stored(<<>>)
    /\ ConsentHistory(FALSE, <<>>, TRUE)
    /\ UNCHANGED <<consentedFilterIds, calls, readCount>>

\* getFromStorage resumes with the value read from the key
GetFromStorage(s) ==
    /\ calls[s].pc = "getFromStorage"
    /\ calls' = [calls EXCEPT ![s].data = GetFromStorageData(durable),
                              ![s].pc = "restore"]
    /\ storageData' = Some(GetFromStorageData(durable))
    /\ durable' = GetFromStorageDurable(durable)
    /\ readCount' = readCount + 1
    /\ UNCHANGED <<consentedFilterIds, granted, resetCalled,
                   overlapped, durable0, storageCall, grantedSinceReset>>

\* restoreConsentedFilterIds resumes after getFromStorage
RestoreConsentedFilterIds(s) ==
    /\ calls[s].pc = "restore"
    /\ consentedFilterIds' = RestoredSet(calls[s].data)
    /\ calls' = [calls EXCEPT ![s].pc = "resume", ![s].data = <<>>]
    /\ UNCHANGED <<storageData, durable, readCount, granted,
                   resetCalled, overlapped, durable0, storageCall, grantedSinceReset>>

\* addFilterIds / isConsentedFilter resume after restoreConsentedFilterIds
ResumeCall(s) ==
    /\ calls[s].pc = "resume"
    /\ IF calls[s].op = "add"
       THEN AddAndFlush(calls[s].arg)
       ELSE UNCHANGED <<consentedFilterIds, storageData, durable>>
    /\ calls' = [calls EXCEPT ![s] = IdleCall]
    /\ UNCHANGED <<readCount, granted, resetCalled, overlapped,
                   durable0, storageCall, grantedSinceReset>>

ConsentStart ==
    /\ consentedFilterIds = Null
    /\ storageData = Null
    /\ durable \in StoredValues
    /\ durable0 = durable
    /\ calls = [s \in Slots |-> IdleCall]
    /\ readCount = 0
    /\ granted = {}
    /\ resetCalled = FALSE
    /\ overlapped = FALSE
    /\ storageCall = NoStorageCall
    /\ grantedSinceReset = {}

ConsentStep ==
    \/ \E s \in Slots, filterIds \in ArgLists : AddFilterIdsCall(s, filterIds)
    \/ \E s \in Slots, id \in ConsentIds : IsConsentedFilterCall(s, id)
    \/ ResetCall
    \/ \E s \in Slots : GetFromStorage(s)
    \/ \E s \in Slots : RestoreConsentedFilterIds(s)
    \/ \E s \in Slots : ResumeCall(s)

-----------------------------------------------------------------------------
(* Version store, clock and settings *)

\* Built-in filters 1 and 2 and the custom filter 1000
FilterIds == {1, 2, 1000}

CUSTOM_FILTERS_START_ID == 1000

\* CustomFilterApi.isCustomFilter
isCustomFilter(id) == id >= CUSTOM_FILTERS_START_ID

\* CommonFilterApi.isCommonFilter
isCommonFilter(id) == ~isCustomFilter(id)

\* The sentinel update period that means "use the expires of each list"
DEFAULT_FILTERS_UPDATE_PERIOD == -1

\* FiltersUpdateTime.Disabled
FiltersUpdateTimeDisabled == 0

RECENTLY_CHECKED_FILTER_TIMEOUT_MS == 1000 * 60 * 5

Minute == 1000 * 60

\* No record for a filter: filterVersions[id] === undefined
NoVersion ==
    [present |-> FALSE, version |-> 0, expires |-> 0, lastUpdateTime |-> 0,
     lastCheckTime |-> 0, diffPath |-> FALSE]

VersionRecord(version, expires, lastUpdateTime, lastCheckTime, diffPath) ==
    [present |-> TRUE, version |-> version, expires |-> expires,
     lastUpdateTime |-> lastUpdateTime, lastCheckTime |-> lastCheckTime,
     diffPath |-> diffPath]

-----------------------------------------------------------------------------
(* Update decision engine: the selections of FilterUpdateApi *)

\* filterUpdateDetails of the given ids, all with the same force flag
Details(ids, force) ==
    [i \in DOMAIN ids |-> [filterId |-> ids[i], force |-> force]]

\* details.map(d => ({ ...d, force }))
WithForce(details, force) ==
    [i \in DOMAIN details |-> [details[i] EXCEPT !.force = force]]

\* A variant of IsOutdated that counts a check made exactly 5 minutes ago as old
IsOutdated_Inclusive(filterVersion, t) ==
    IF filterVersion.present
    THEN t - filterVersion.lastCheckTime >= RECENTLY_CHECKED_FILTER_TIMEOUT_MS
    ELSE TRUE

\* The filter predicate of selectFiltersIdsToUpdate
IsOutdated(filterVersion, t) ==
    IF filterVersion.present
    THEN t - filterVersion.lastCheckTime > RECENTLY_CHECKED_FILTER_TIMEOUT_MS
    ELSE TRUE

selectFiltersIdsToUpdate(filterIds) ==
    SelectSeq(filterIds,
              LAMBDA id : isCustomFilter(id) \/ IsOutdated(filterVersions[id], now))

\* A variant of selectFiltersWithDiffPath that keeps every filter
selectFiltersWithDiffPath_All(filterUpdateDetails) == WithForce(filterUpdateDetails, FALSE)

selectFiltersWithDiffPath(filterUpdateDetails) ==
    WithForce(SelectSeq(filterUpdateDetails,
                        LAMBDA d : /\ filterVersions[d.filterId].present
                                   /\ filterVersions[d.filterId].diffPath),
              FALSE)

\* A variant of IsExpired that takes a filter without a record as fresh
IsExpired_NoRecordFresh(filterVersion, period, t) ==
    /\ filterVersion.present
    /\ IF period = DEFAULT_FILTERS_UPDATE_PERIOD
       THEN filterVersion.lastCheckTime + filterVersion.expires * 1000 <= t
       ELSE filterVersion.lastCheckTime + period <= t

\* A variant of IsExpired that is strict at the instant of expiry
IsExpired_Strict(filterVersion, period, t) ==
    IF ~filterVersion.present
    THEN TRUE
    ELSE IF period = DEFAULT_FILTERS_UPDATE_PERIOD
         THEN filterVersion.lastCheckTime + filterVersion.expires * 1000 < t
         ELSE filterVersion.lastCheckTime + period < t

\* The filter predicate of selectExpiredFilters
IsExpired(filterVersion, period, t) ==
    IF ~filterVersion.present
    THEN TRUE
    ELSE IF period = DEFAULT_FILTERS_UPDATE_PERIOD
         THEN filterVersion.lastCheckTime + filterVersion.expires * 1000 <= t
         ELSE filterVersion.lastCheckTime + period <= t

selectExpiredFilters(filterUpdateDetails, period) ==
    WithForce(SelectSeq(filterUpdateDetails,
                        LAMBDA d : IsExpired(filterVersions[d.filterId], period, now)),
              TRUE)

\* uniqueFiltersMap, a Map kept as the sequence of its values in insertion order
MapHas(map, filterId) == \E i \in DOMAIN map : map[i].filterId = filterId

\* A variant of MapSet that adds an entry even when the key is there
MapSet_Append(map, filter) == Append(map, filter)

\* Map.prototype.set: a new key goes to the end, an old key keeps its place
MapSet(map, filter) ==
    IF MapHas(map, filter.filterId)
    THEN [i \in DOMAIN map |->
             IF map[i].filterId = filter.filterId THEN filter ELSE map[i]]
    ELSE Append(map, filter)

\* A variant of MergeFilter in which the first entry of a filter wins
MergeFilter_FirstWins(map, filter) ==
    IF ~MapHas(map, filter.filterId) THEN MapSet(map, filter) ELSE map

\* The body of combinedFilters.forEach in autoUpdateFilters
MergeFilter(map, filter) ==
    IF ~MapHas(map, filter.filterId) \/ filter.force
    THEN MapSet(map, filter)
    ELSE map

RECURSIVE UniqueFilters(_, _)
UniqueFilters(map, combinedFilters) ==
    IF combinedFilters = <<>>
    THEN map
    ELSE UniqueFilters(MergeFilter(map, Head(combinedFilters)), Tail(combinedFilters))

\* A variant of FilterUpdateDetailsToUpdate that selects also when forced
FilterUpdateDetailsToUpdate_AlwaysSelect(forceUpdate, period) ==
    LET all == Details(installed, forceUpdate)
    IN  UniqueFilters(<<>>, selectFiltersWithDiffPath(all)
                                \o selectExpiredFilters(all, period))

\* autoUpdateFilters: the task list it hands to updateFilters
FilterUpdateDetailsToUpdate(forceUpdate, period) ==
    LET all == Details(installed, forceUpdate)
    IN  IF forceUpdate
        THEN all
        ELSE UniqueFilters(<<>>, selectFiltersWithDiffPath(all)
                                     \o selectExpiredFilters(all, period))

NoSelection == [op |-> "none", force |-> FALSE, tasks |-> <<>>, ids |-> <<>>]

\* The decision engine's selections, applied to the current store and clock
ApplySelectExpiredFilters ==
    /\ sel' = [op |-> "selectExpiredFilters", force |-> FALSE, ids |-> <<>>,
               tasks |-> selectExpiredFilters(Details(installed, FALSE), updatePeriod)]
    /\ UNCHANGED <<consentVars, engineVars, cycles, patchVars, engine>>

ApplySelectFiltersWithDiffPath ==
    /\ sel' = [op |-> "selectFiltersWithDiffPath", force |-> FALSE, ids |-> <<>>,
               tasks |-> selectFiltersWithDiffPath(Details(installed, FALSE))]
    /\ UNCHANGED <<consentVars, engineVars, cycles, patchVars, engine>>

ApplySelectFiltersIdsToUpdate ==
    /\ sel' = [op |-> "selectFiltersIdsToUpdate", force |-> FALSE, tasks |-> <<>>,
               ids |-> selectFiltersIdsToUpdate(installed)]
    /\ UNCHANGED <<consentVars, engineVars, cycles, patchVars, engine>>

ApplyFilterUpdateDetailsToUpdate(forceUpdate) ==
    /\ sel' = [op |-> "autoUpdateFilters", force |-> forceUpdate, ids |-> <<>>,
               tasks |-> FilterUpdateDetailsToUpdate(forceUpdate, updatePeriod)]
    /\ UNCHANGED <<consentVars, engineVars, cycles, patchVars, engine>>

\* Clock values: whole minutes
Times == {m * Minute : m \in 0..MaxMinutes}

\* expires, in seconds, as declared by a list
ExpiresValues == {180, 240}

UpdatePeriods == {DEFAULT_FILTERS_UPDATE_PERIOD, 2 * Minute, 5 * Minute}

SelectVersionRecords(t) ==
    {NoVersion} \cup
        {VersionRecord(1, e, 0, lct, dp) :
            e \in ExpiresValues, lct \in {x \in Times : x <= t}, dp \in BOOLEAN}

-----------------------------------------------------------------------------
(* Downstream rule engine: Engine.debounceUpdate *)

\* No call of debounceUpdate yet
IdleEngine == [pending |-> 0, calls |-> 0, rebuilds |-> 0]

\* Engine.debounceUpdate(): one more call in the open debounce window
DebounceUpdate(e) == [e EXCEPT !.pending = @ + 1, !.calls = @ + 1]

\* A variant of RebuildsAfterWindow with one rebuild per call
RebuildsAfterWindow_PerCall(e) == e.rebuilds + e.pending

\* The rebuilds made once the debounce window has closed
RebuildsAfterWindow(e) == e.rebuilds + 1

\* The debounce window closes: the engine rebuilds
DebounceFire ==
    /\ engine.pending > 0
    /\ engine' = [engine EXCEPT !.pending = 0, !.rebuilds = RebuildsAfterWindow(engine)]
    /\ UNCHANGED <<consentVars, engineVars, sel, cycles, patchVars>>

-----------------------------------------------------------------------------
(* Update orchestrator: the cycles of FilterUpdateApi *)

\* Two callers of the orchestrator, each making one call: one runs
\* autoUpdateFilters (the update scheduler, the "update filters" menu items),
\* the other runs checkForFiltersUpdates (a filter or a group is enabled)
AutoCaller == "auto"

CheckCaller == "check"

CycleSlots == {AutoCaller, CheckCaller}

IdleCycle ==
    [kind |-> "idle", pc |-> "idle", force |-> FALSE, candidates |-> <<>>,
     tasks |-> <<>>, loads |-> 0, state |-> <<>>, updated |-> <<>>, refresh |-> <<>>,
     result |-> <<>>]

\* The filter ids of a task list
TaskIds(tasks) == [i \in DOMAIN tasks |-> tasks[i].filterId]

\* A variant of shouldLoadMetadata that does not look at the kind of filter
shouldLoadMetadata_AnyForced(filterUpdateDetails) ==
    \E i \in DOMAIN filterUpdateDetails : filterUpdateDetails[i].force

\* updateFilters: shouldLoadMetadata
shouldLoadMetadata(filterUpdateDetails) ==
    \E i \in DOMAIN filterUpdateDetails :
        /\ filterUpdateDetails[i].force
        /\ isCommonFilter(filterUpdateDetails[i].filterId)

\* The record that a successful updateFilter of CommonFilterApi / CustomFilterApi
\* commits: the new version, checked and updated now
UpdatedRecord(old, t) ==
    VersionRecord(2, IF old.present THEN old.expires ELSE 240, t, t,
                  old.present /\ old.diffPath)

\* filterVersionStorage.refreshLastCheckTime(ids): the filters that have a record
refreshLastCheckTime(versions, ids, t) ==
    [id \in FilterIds |->
        IF Includes(ids, id) /\ versions[id].present
        THEN [versions[id] EXCEPT !.lastCheckTime = t]
        ELSE versions[id]]

\* A variant of PushMetadata without the test of the task's result
PushMetadata_Always(updated, filterId, outcome) == Append(updated, filterId)

\* updateFilters: if (filterMetadata) updatedFiltersMetadata.push(filterMetadata)
PushMetadata(updated, filterId, outcome) ==
    IF outcome = "ok" THEN Append(updated, filterId) ELSE updated

\* updateFilters is entered with a task list; the tasks are dispatched at once
\* unless the metadata catalog is loaded first
\* (candidates are the ids the entry point was given, loads counts the calls of
\* FiltersApi.loadMetadata)
EnterUpdateFilters(c, kind, force, candidates, tasks, refresh) ==
    cycles' = [cycles EXCEPT ![c] =
        [kind |-> kind, force |-> force, candidates |-> candidates, tasks |-> tasks,
         loads |-> IF shouldLoadMetadata(tasks) THEN 1 ELSE 0,
         pc |-> IF shouldLoadMetadata(tasks) THEN "loadMetadata" ELSE "tasks",
         state |-> [i \in DOMAIN tasks |->
                       IF shouldLoadMetadata(tasks) THEN "waiting" ELSE "inflight"],
         updated |-> <<>>, refresh |-> refresh, result |-> <<>>]]

\* A variant of ShortCircuits that does not look at forceUpdate
ShortCircuits_IgnoreForce(forceUpdate) ==
    filteringDisabled \/ updatePeriod = FiltersUpdateTimeDisabled

\* autoUpdateFilters: the two early returns
ShortCircuits(forceUpdate) ==
    \/ filteringDisabled /\ ~forceUpdate
    \/ updatePeriod = FiltersUpdateTimeDisabled /\ ~forceUpdate

\* autoUpdateFilters(forceUpdate), up to its first await
AutoUpdateFiltersCall(c, forceUpdate) ==
    /\ cycles[c].pc = "idle"
    /\ IF ShortCircuits(forceUpdate)
       THEN cycles' = [cycles EXCEPT ![c] =
                [IdleCycle EXCEPT !.kind = "auto", !.pc = "done",
                                  !.force = forceUpdate, !.candidates = installed]]
       ELSE LET tasks == FilterUpdateDetailsToUpdate(forceUpdate, updatePeriod)
            IN  EnterUpdateFilters(c, "auto", forceUpdate, installed, tasks,
                                   TaskIds(tasks))
    /\ UNCHANGED <<consentVars, engineVars, sel, patchVars, engine>>

\* checkForFiltersUpdates(filterIds), up to its first await
CheckForFiltersUpdatesCall(c, filterIds) ==
    /\ cycles[c].pc = "idle"
    /\ LET filtersToCheck == selectFiltersIdsToUpdate(filterIds)
       IN  EnterUpdateFilters(c, "check", TRUE, filterIds,
                              Details(filtersToCheck, TRUE), filtersToCheck)
    /\ UNCHANGED <<consentVars, engineVars, sel, patchVars, engine>>

\* updateFilters resumes after FiltersApi.loadMetadata(true) and dispatches the tasks
LoadMetadataDone(c) ==
    /\ cycles[c].pc = "loadMetadata"
    /\ cycles' = [cycles EXCEPT ![c].pc = "tasks",
                                ![c].state = [i \in DOMAIN cycles[c].tasks |-> "inflight"]]
    /\ UNCHANGED <<consentVars, engineVars, sel, patchVars, engine>>

\* One update task ends: updateFilter returned metadata ("ok"), returned null
\* ("null") or threw ("rejected")
UpdateTaskDone(c, i, outcome) ==
    /\ cycles[c].pc = "tasks"
    /\ i \in DOMAIN cycles[c].tasks
    /\ cycles[c].state[i] = "inflight"
    /\ LET id == cycles[c].tasks[i].filterId
       IN  /\ cycles' = [cycles EXCEPT
                   ![c].state[i] = outcome,
                   ![c].updated = PushMetadata(@, id, outcome)]
           /\ filterVersions' =
                   IF outcome = "ok"
                   THEN [filterVersions EXCEPT ![id] = UpdatedRecord(@, now)]
                   ELSE filterVersions
    /\ UNCHANGED <<consentVars, now, updatePeriod, filteringDisabled, installed, sel,
                   patchVars, engine>>

AllSettled(cycle) == \A i \in DOMAIN cycle.state : cycle.state[i] # "inflight"

\* The entry point calls Engine.debounceUpdate after its cycle:
\* autoUpdateFilters if some filters were updated, checkForFiltersUpdates never
SignalsEngine(kind, updatedFilters) == kind = "auto" /\ updatedFilters # <<>>

\* Promise.allSettled resolves: updateFilters returns the list, and the entry
\* point refreshes lastCheckTime and returns the list
UpdateFiltersReturn(c) ==
    /\ cycles[c].pc = "tasks"
    /\ AllSettled(cycles[c])
    /\ filterVersions' = refreshLastCheckTime(filterVersions, cycles[c].refresh, now)
    /\ cycles' = [cycles EXCEPT ![c].pc = "done", ![c].result = cycles[c].updated]
    /\ engine' = IF SignalsEngine(cycles[c].kind, cycles[c].updated)
                  THEN DebounceUpdate(engine)
                  ELSE engine
    /\ UNCHANGED <<consentVars, now, updatePeriod, filteringDisabled, installed, sel,
                   patchVars>>

\* Time passes
Tick ==
    /\ now < (MaxMinutes + MaxTicks) * Minute
    /\ now' = now + Minute
    /\ UNCHANGED <<consentVars, filterVersions, updatePeriod, filteringDisabled,
                   installed, sel, cycles, patchVars, engine>>

\* The caller has received the list: its next call can be made
CycleReturned(c) ==
    /\ cycles[c].pc = "done"
    /\ cycles' = [cycles EXCEPT ![c] = IdleCycle]
    /\ UNCHANGED <<consentVars, engineVars, sel, patchVars, engine>>

\* An instant, seen one minute later from a clock that stays at its bound
ShiftedBack(t) == IF t >= Minute THEN t - Minute ELSE 0

\* Time passes without end: up to the bound the clock advances; at the bound
\* every stored instant moves one minute into the past instead, which keeps
\* all the differences now - lastCheckTime that are below the bound
TickForever ==
    /\ IF now < MaxMinutes * Minute
       THEN now' = now + Minute /\ UNCHANGED filterVersions
       ELSE /\ UNCHANGED now
            /\ filterVersions' =
                  [id \in FilterIds |->
                      [filterVersions[id] EXCEPT
                          !.lastCheckTime = ShiftedBack(@),
                          !.lastUpdateTime = ShiftedBack(@)]]
    /\ UNCHANGED <<consentVars, updatePeriod, filteringDisabled, installed, sel, cycles,
                   patchVars, engine>>

TaskOutcomes == {"ok", "null", "rejected"}

\* The outcomes of a task that fails
FailedOutcomes == {"null", "rejected"}

\* The lists of ids that checkForFiltersUpdates is called with
CheckedLists == {<<1>>, <<1000>>}

\* Records at the start of the orchestrator's run: none, checked long ago,
\* checked just now
UpdateVersionRecords(t) ==
    {NoVersion, VersionRecord(1, 240, 0, 0, TRUE), VersionRecord(1, 240, 0, t, TRUE),
     VersionRecord(1, 240, 0, t, FALSE)}

UpdateSettings ==
    {<<DEFAULT_FILTERS_UPDATE_PERIOD, FALSE>>, <<DEFAULT_FILTERS_UPDATE_PERIOD, TRUE>>,
     <<FiltersUpdateTimeDisabled, FALSE>>}

-----------------------------------------------------------------------------
(* Patch executor and scheduler: FilterPatchUpdateService *)

\* Contents of a filter: the cached one and the one the patch feed leads to
CachedContent == "cached"

PatchedContent == "patched"

\* update() not yet called; before holds what the stores held when it was called
IdlePatch == [pc |-> "idle", tasks |-> <<>>, before |-> <<>>]

\* What the stores hold for the filters at the call of update()
StoresSnapshot ==
    [filters |-> filters, rawFilters |-> rawFilters, filterVersions |-> filterVersions]

\* A task of update() has ended when tryToApplyPatch has returned (after the
\* commit, from the catch block, or early for a custom filter without
\* metadata) or has rejected
TaskFulfilled(task) == task.pc \in {"done", "caught", "early"}

TaskRejected(task) == task.pc = "rejected"

TaskEnded(task) == TaskFulfilled(task) \/ TaskRejected(task)

\* update(), up to await Promise.all(tasks): every tryToApplyPatch has started
\* and waits for FiltersStorage.get
PatchUpdateCall ==
    /\ patch.pc = "idle"
    /\ patch' = [pc |-> "awaiting",
                 tasks |-> [i \in DOMAIN installed |->
                               [filterId |-> installed[i], pc |-> "get",
                                failure |-> "none"]],
                 before |-> StoresSnapshot]
    /\ UNCHANGED <<consentVars, engineVars, sel, cycles, filters, rawFilters,
                   customMetadata, engine>>

PatchTaskAt(i, pc) ==
    /\ i \in DOMAIN patch.tasks
    /\ patch.tasks[i].pc = pc

\* tryToApplyPatch: where the task goes after FiltersStorage.get, which is
\* awaited before the try block
AfterGet(filterId, ok) ==
    IF ~ok THEN "rejected"
    ELSE IF isCustomFilter(filterId) /\ filterId \notin customMetadata THEN "early"
    ELSE "applyPatch"

\* tryToApplyPatch: where the task goes after an await inside the try block
AfterAwait(ok, next) == IF ok THEN next ELSE "caught"

\* The step of tryToApplyPatch that threw, kept with the task
FailureOf(ok, step) == IF ok THEN "none" ELSE step

\* tryToApplyPatch: what the header parse and the commit after FiltersStorage.set
\* make of the task
SetFiltersFailure(ok, hasMetadata) ==
    IF ~ok THEN "FiltersStorage.set"
    ELSE IF ~hasMetadata THEN "parseFilterDataFromHeader"
    ELSE "none"

\* tryToApplyPatch resumes after FiltersStorage.get and resolves the url
PatchTaskGet(i, ok) ==
    /\ PatchTaskAt(i, "get")
    /\ patch' = [patch EXCEPT !.tasks[i].pc = AfterGet(patch.tasks[i].filterId, ok),
                              !.tasks[i].failure = FailureOf(ok, "FiltersStorage.get")]
    /\ UNCHANGED <<consentVars, engineVars, sel, cycles, filters, rawFilters,
                   customMetadata, engine>>

\* tryToApplyPatch resumes after applyPatch
PatchTaskApplyPatch(i, ok) ==
    /\ PatchTaskAt(i, "applyPatch")
    /\ patch' = [patch EXCEPT !.tasks[i].pc = AfterAwait(ok, "setRaw"),
                              !.tasks[i].failure = FailureOf(ok, "applyPatch")]
    /\ UNCHANGED <<consentVars, engineVars, sel, cycles, filters, rawFilters,
                   customMetadata, engine>>

\* tryToApplyPatch resumes after RawFiltersStorage.set
PatchTaskSetRaw(i, ok) ==
    /\ PatchTaskAt(i, "setRaw")
    /\ patch' = [patch EXCEPT !.tasks[i].pc = AfterAwait(ok, "resolveDirectives"),
                              !.tasks[i].failure = FailureOf(ok, "RawFiltersStorage.set")]
    /\ rawFilters' = IF ok
                     THEN [rawFilters EXCEPT ![patch.tasks[i].filterId] = PatchedContent]
                     ELSE rawFilters
    /\ UNCHANGED <<consentVars, engineVars, sel, cycles, filters, customMetadata,
                   engine>>

\* tryToApplyPatch resumes after FiltersDownloader.resolveDirectives
PatchTaskResolveDirectives(i, ok) ==
    /\ PatchTaskAt(i, "resolveDirectives")
    /\ patch' = [patch EXCEPT !.tasks[i].pc = AfterAwait(ok, "setFilters"),
                              !.tasks[i].failure = FailureOf(ok, "resolveDirectives")]
    /\ UNCHANGED <<consentVars, engineVars, sel, cycles, filters, rawFilters,
                   customMetadata, engine>>

\* A variant of ReachesDebounceUpdate that holds whatever happened before
ReachesDebounceUpdate_Always(ok, hasMetadata) == TRUE

\* tryToApplyPatch: Engine.debounceUpdate() is the last statement of the try
\* block, reached when neither FiltersStorage.set nor the header parse threw
ReachesDebounceUpdate(ok, hasMetadata) == ok /\ hasMetadata

\* The record tryToApplyPatch commits: version and expires from the header,
\* lastUpdateTime from the header's timeUpdated, lastCheckTime from the clock,
\* and no diffPath
PatchedRecord(timeUpdated, t) == VersionRecord(2, 240, timeUpdated, t, FALSE)

\* tryToApplyPatch resumes after FiltersStorage.set, parses the header
\* (hasMetadata) and commits the version record
PatchTaskSetFilters(i, ok, hasMetadata, timeUpdated) ==
    /\ PatchTaskAt(i, "setFilters")
    /\ patch' = [patch EXCEPT !.tasks[i].pc = AfterAwait(ok /\ hasMetadata, "done"),
                              !.tasks[i].failure = SetFiltersFailure(ok, hasMetadata)]
    /\ filters' = IF ok
                  THEN [filters EXCEPT ![patch.tasks[i].filterId] = PatchedContent]
                  ELSE filters
    /\ filterVersions' =
          IF ok /\ hasMetadata
          THEN [filterVersions EXCEPT
                   ![patch.tasks[i].filterId] = PatchedRecord(timeUpdated, now)]
          ELSE filterVersions
    /\ engine' = IF ReachesDebounceUpdate(ok, hasMetadata)
                  THEN DebounceUpdate(engine)
                  ELSE engine
    /\ UNCHANGED <<consentVars, now, updatePeriod, filteringDisabled, installed, sel,
                   cycles, rawFilters, customMetadata>>

\* A variant of PromiseAll that waits for every task and never rejects
PromiseAll_AllSettled(tasks) ==
    IF \A i \in DOMAIN tasks : TaskEnded(tasks[i]) THEN "resolved" ELSE "awaiting"

\* Promise.all(tasks): rejected as soon as one task has rejected, resolved
\* once all tasks are fulfilled
PromiseAll(tasks) ==
    IF \E i \in DOMAIN tasks : TaskRejected(tasks[i]) THEN "rejected"
    ELSE IF \A i \in DOMAIN tasks : TaskFulfilled(tasks[i]) THEN "resolved"
    ELSE "awaiting"

\* update() resumes (or rejects) after await Promise.all(tasks)
PatchUpdateSettled ==
    /\ patch.pc = "awaiting"
    /\ PromiseAll(patch.tasks) # "awaiting"
    /\ patch' = [patch EXCEPT !.pc = PromiseAll(patch.tasks)]
    /\ UNCHANGED <<consentVars, engineVars, sel, cycles, filters, rawFilters,
                   customMetadata, engine>>

\* timeUpdated values found in a list's header: a past one, a future one
HeaderTimes == {0, (MaxMinutes + MaxTicks + 1) * Minute}

PatchIdle ==
    /\ patch = IdlePatch
    /\ filters = [id \in FilterIds |-> CachedContent]
    /\ rawFilters = [id \in FilterIds |-> CachedContent]
    /\ customMetadata = {}
    /\ engine = IdleEngine

-----------------------------------------------------------------------------
(* Specifications *)

ConsentIdle ==
    /\ consentedFilterIds = Null
    /\ storageData = Null
    /\ durable = Stored(<<>>)
    /\ durable0 = durable
    /\ calls = [s \in Slots |-> IdleCall]
    /\ readCount = 0
    /\ granted = {}
    /\ resetCalled = FALSE
    /\ overlapped = FALSE
    /\ storageCall = NoStorageCall
    /\ grantedSinceReset = {}

EngineIdle ==
    /\ filterVersions = [id \in FilterIds |-> NoVersion]
    /\ now = 0
    /\ updatePeriod = DEFAULT_FILTERS_UPDATE_PERIOD
    /\ filteringDisabled = FALSE
    /\ installed = <<>>
    /\ sel = NoSelection
    /\ cycles = [c \in CycleSlots |-> IdleCycle]

\* The consent tracker, called by two callers
ConsentInit == ConsentStart /\ EngineIdle /\ PatchIdle

ConsentNext == ConsentStep /\ UNCHANGED <<engineVars, sel, cycles, patchVars, engine>>

SpecConsent == ConsentInit /\ [][ConsentNext]_vars

\* The storage class alone: addFilterIds over uninitialized and initialized data
StorageInit ==
    /\ consentedFilterIds = Null
    /\ storageData \in {Null} \cup {Some(l) : l \in ListsOver(StorageIds)}
    /\ durable = IF storageData.null
                 THEN [kind |-> "absent", ids |-> <<>>]
                 ELSE Stored(storageData.ids)
    /\ durable0 = durable
    /\ calls = [s \in Slots |-> IdleCall]
    /\ readCount = 0
    /\ granted = {}
    /\ resetCalled = FALSE
    /\ overlapped = FALSE
    /\ storageCall = NoStorageCall
    /\ grantedSinceReset = {}
    /\ EngineIdle
    /\ PatchIdle

StorageNext == \E filterIds \in StorageArgs : StorageAddFilterIds(filterIds)

SpecStorage == StorageInit /\ [][StorageNext]_vars

\* The decision engine, applied to any version store and clock
SelectInit ==
    /\ ConsentIdle
    /\ now \in Times
    /\ filterVersions \in [FilterIds -> SelectVersionRecords(MaxMinutes * Minute)]
    /\ \A id \in FilterIds : filterVersions[id].lastCheckTime <= now
    /\ updatePeriod \in UpdatePeriods
    /\ filteringDisabled = FALSE
    /\ installed = <<1, 2, 1000>>
    /\ sel = NoSelection
    /\ cycles = [c \in CycleSlots |-> IdleCycle]
    /\ PatchIdle

SelectNext ==
    \/ ApplySelectExpiredFilters
    \/ ApplySelectFiltersWithDiffPath
    \/ ApplySelectFiltersIdsToUpdate
    \/ \E forceUpdate \in BOOLEAN : ApplyFilterUpdateDetailsToUpdate(forceUpdate)

SpecSelect == SelectInit /\ [][SelectNext]_vars

\* The orchestrator, called by two callers
UpdateInit ==
    /\ ConsentIdle
    /\ now = MaxMinutes * Minute
    /\ filterVersions \in [FilterIds -> UpdateVersionRecords(now)]
    /\ \E s \in UpdateSettings : updatePeriod = s[1] /\ filteringDisabled = s[2]
    /\ \/ updatePeriod = DEFAULT_FILTERS_UPDATE_PERIOD /\ ~filteringDisabled
       \/ filterVersions = [id \in FilterIds |-> VersionRecord(1, 240, 0, 0, TRUE)]
    /\ installed = <<1, 2, 1000>>
    /\ sel = NoSelection
    /\ cycles = [c \in CycleSlots |-> IdleCycle]
    /\ PatchIdle

UpdateNext ==
    \/ \E forceUpdate \in BOOLEAN : AutoUpdateFiltersCall(AutoCaller, forceUpdate)
    \/ \E filterIds \in CheckedLists : CheckForFiltersUpdatesCall(CheckCaller, filterIds)
    \/ \E c \in CycleSlots : LoadMetadataDone(c)
    \/ \E c \in CycleSlots, i \in 1..Len(installed), outcome \in TaskOutcomes :
            UpdateTaskDone(c, i, outcome)
    \/ \E c \in CycleSlots : UpdateFiltersReturn(c)
    \/ Tick

SpecUpdate == UpdateInit /\ [][UpdateNext]_vars

\* Repeated non-forced cycles of autoUpdateFilters whose tasks always fail,
\* with the list-declared expiry (4 minutes) and a clock that never stops
RepeatInit ==
    /\ ConsentIdle
    /\ now = 0
    /\ filterVersions \in [FilterIds -> {NoVersion, VersionRecord(1, 240, 0, 0, TRUE)}]
    /\ filterVersions[1] = VersionRecord(1, 240, 0, 0, TRUE)
    /\ updatePeriod = DEFAULT_FILTERS_UPDATE_PERIOD
    /\ filteringDisabled = FALSE
    /\ installed = <<1, 1000>>
    /\ sel = NoSelection
    /\ cycles = [c \in CycleSlots |-> IdleCycle]
    /\ PatchIdle

RepeatNext ==
    \/ AutoUpdateFiltersCall(AutoCaller, FALSE)
    \/ LoadMetadataDone(AutoCaller)
    \/ \E i \in 1..Len(installed), outcome \in FailedOutcomes :
            UpdateTaskDone(AutoCaller, i, outcome)
    \/ UpdateFiltersReturn(AutoCaller)
    \/ CycleReturned(AutoCaller)
    \/ TickForever

\* The scheduler keeps calling, every started step of a cycle completes, and
\* time passes
RepeatFairness ==
    /\ WF_vars(AutoUpdateFiltersCall(AutoCaller, FALSE))
    /\ WF_vars(LoadMetadataDone(AutoCaller))
    /\ \A i \in 1..2 :
          WF_vars(\E outcome \in FailedOutcomes : UpdateTaskDone(AutoCaller, i, outcome))
    /\ WF_vars(UpdateFiltersReturn(AutoCaller))
    /\ WF_vars(CycleReturned(AutoCaller))
    /\ WF_vars(TickForever)

SpecRepeat == RepeatInit /\ [][RepeatNext]_vars /\ RepeatFairness

\* The patch service: one update() over the installed and enabled filters
PatchInit ==
    /\ ConsentIdle
    /\ now = MaxMinutes * Minute
    /\ filterVersions \in [FilterIds -> {VersionRecord(1, 240, 0, 0, TRUE),
                                         VersionRecord(1, 240, 0, 0, FALSE)}]
    /\ updatePeriod = DEFAULT_FILTERS_UPDATE_PERIOD
    /\ filteringDisabled = FALSE
    /\ installed = <<1, 2, 1000>>
    /\ sel = NoSelection
    /\ cycles = [c \in CycleSlots |-> IdleCycle]
    /\ patch = IdlePatch
    /\ filters = [id \in FilterIds |-> CachedContent]
    /\ rawFilters = [id \in FilterIds |-> CachedContent]
    /\ customMetadata \in {{}, {1000}}
    /\ engine = IdleEngine

PatchNext ==
    \/ PatchUpdateCall
    \/ \E i \in 1..Len(installed), ok \in BOOLEAN : PatchTaskGet(i, ok)
    \/ \E i \in 1..Len(installed), ok \in BOOLEAN : PatchTaskApplyPatch(i, ok)
    \/ \E i \in 1..Len(installed), ok \in BOOLEAN : PatchTaskSetRaw(i, ok)
    \/ \E i \in 1..Len(installed), ok \in BOOLEAN : PatchTaskResolveDirectives(i, ok)
    \/ \E i \in 1..Len(installed), ok \in BOOLEAN, hasMetadata \in BOOLEAN,
           timeUpdated \in HeaderTimes :
            PatchTaskSetFilters(i, ok, hasMetadata, timeUpdated)
    \/ PatchUpdateSettled
    \/ DebounceFire
    \/ Tick

SpecPatch == PatchInit /\ [][PatchNext]_vars

-----------------------------------------------------------------------------
(* Properties of the consent tracker *)

MemoryIds == SeqToSet(ArrayFromSet(consentedFilterIds))

DurableIds == SeqToSet(durable.ids)

\* C3 (as claimed): once all calls have completed, and none of them was a
\* reset, every id passed to addFilterIds is in the in-memory set and in the
\* persisted set, whatever the interleaving of the calls.
C3_NoLostConsent ==
    (AllIdle /\ ~resetCalled /\ granted # {}) =>
        /\ granted \subseteq MemoryIds
        /\ granted \subseteq DurableIds

\* C6: after sequential addFilterIds calls (no overlap, no reset) that start
\* from a stored set S, the persisted list holds S united with all ids passed,
\* each id once; so no member is removed and a repeated call changes nothing.
C6_IdempotentAdditive ==
    (AllIdle /\ ~overlapped /\ ~resetCalled /\ granted # {}
            /\ durable0.kind \in {"absent", "list"}) =>
        /\ durable.kind = "list"
        /\ DurableIds = SeqToSet(durable0.ids) \cup granted
        /\ NoDup(durable.ids)

\* C6 witness: the store held [1]; ids 1 and 2 were added by sequential calls
C6_Witness ==
    /\ AllIdle /\ ~overlapped /\ ~resetCalled
    /\ durable0 = Stored(<<1>>)
    /\ granted = {1, 2}
    /\ durable = Stored(<<1, 2>>)

\* C7 (as claimed): after any sequence of addFilterIds, isConsentedFilter and
\* reset calls made one after the other, the materialized in-memory set equals
\* the set stored under the consent key.
C7_WriteThrough ==
    (AllIdle /\ ~overlapped /\ ~consentedFilterIds.null) =>
        /\ durable.kind = "list"
        /\ MemoryIds = DurableIds

\* C8 (as claimed): the consent key is read at most once per instance, over
\* any interleaving of addFilterIds and isConsentedFilter calls.
C8_MaterializedOnce == readCount <= 1


\* C20: getFromStorage never fails: for a stored value that is absent, not a
\* string, not JSON or not a list of numbers it returns the empty list and
\* rewrites the key with the empty list at once; for a valid stored list it
\* returns that list and leaves the key as it is. The set materialized from
\* the returned list holds exactly its ids.
C20_MaterializationNeverFails ==
    [][\A s \in Slots :
          /\ calls[s].pc = "getFromStorage" /\ calls'[s] # calls[s] =>
                /\ calls'[s].pc = "restore"
                /\ durable.kind \in MalformedKinds =>
                      /\ calls'[s].data = <<>>
                      /\ durable' = Stored(<<>>)
                /\ durable.kind = "list" =>
                      /\ calls'[s].data = durable.ids
                      /\ durable' = durable
          /\ calls[s].pc = "restore" /\ calls'[s] # calls[s] =>
                /\ ~consentedFilterIds'.null
                /\ MemoryIds' = SeqToSet(calls[s].data)]_vars

\* C20 witness: the key held a string that is not JSON; isConsentedFilter
\* materialized the empty set and the key now holds the empty list
C20_Witness ==
    /\ durable0.kind = "badJson"
    /\ readCount = 1
    /\ granted = {}
    /\ ~resetCalled
    /\ consentedFilterIds = Some(<<>>)
    /\ durable = Stored(<<>>)
    /\ AllIdle

\* C26 (as claimed): after a reset(), with calls made one after the other, the
\* materialized set answers true only for ids passed to addFilterIds since
\* the reset, and once such a call was made the key holds exactly those ids.
C26_ResetRevokes ==
    (AllIdle /\ ~overlapped /\ resetCalled /\ ~consentedFilterIds.null) =>
        /\ MemoryIds \subseteq grantedSinceReset
        /\ grantedSinceReset # {} => DurableIds = grantedSinceReset

\* s is the beginning of r
IsPrefix(s, r) == Len(s) <= Len(r) /\ \A i \in DOMAIN s : r[i] = s[i]

\* C23: AnnoyancesConsentStorage.addFilterIds throws and leaves the data as
\* it is when the data is not initialized; otherwise it keeps the former
\* members in their order, adds exactly the passed ids that were missing, and
\* data without duplicates stays without duplicates.
C23_StorageAddFilterIds ==
    storageCall.op = "addFilterIds" =>
        IF storageCall.before.null
        THEN storageCall.threw /\ storageData = storageCall.before
        ELSE /\ ~storageCall.threw
             /\ ~storageData.null
             /\ IsPrefix(storageCall.before.ids, storageData.ids)
             /\ SeqToSet(storageData.ids) =
                    SeqToSet(storageCall.before.ids) \cup SeqToSet(storageCall.arg)
             /\ NoDup(storageCall.before.ids) => NoDup(storageData.ids)

\* C23 witness: the data was [2, 1]; addFilterIds([1, 3]) left [2, 1, 3]
C23_Witness ==
    /\ storageCall.op = "addFilterIds"
    /\ storageCall.before = Some(<<2, 1>>)
    /\ storageCall.arg = <<1, 3>>
    /\ ~storageCall.threw
    /\ storageData = Some(<<2, 1, 3>>)

-----------------------------------------------------------------------------
(* Properties of the decision engine *)

InstalledIds == SeqToSet(installed)

HasTask(tasks, id) == \E i \in DOMAIN tasks : tasks[i].filterId = id

HasTaskWith(tasks, id, force) ==
    \E i \in DOMAIN tasks : tasks[i].filterId = id /\ tasks[i].force = force

\* Expiry as the specification words it, for a filter that has a record
ExpiredAsSpecified(id) ==
    IF updatePeriod = DEFAULT_FILTERS_UPDATE_PERIOD
    THEN filterVersions[id].lastCheckTime + filterVersions[id].expires * 1000 <= now
    ELSE filterVersions[id].lastCheckTime + updatePeriod <= now

\* C4: selectExpiredFilters selects a filter that has a version record, as a
\* force = true task, if and only if lastCheckTime + expires*1000 <= now under
\* the sentinel update period, and lastCheckTime + updatePeriod <= now under
\* any other update period.
C4_Staleness ==
    sel.op = "selectExpiredFilters" =>
        /\ \A id \in InstalledIds :
              filterVersions[id].present =>
                  (HasTask(sel.tasks, id) <=> ExpiredAsSpecified(id))
        /\ \A i \in DOMAIN sel.tasks : sel.tasks[i].force

\* C4 witness: under the sentinel period filter 1 expires exactly now and is
\* selected, and filter 2 is not yet expired and is left out
C4_Witness ==
    /\ sel.op = "selectExpiredFilters"
    /\ updatePeriod = DEFAULT_FILTERS_UPDATE_PERIOD
    /\ filterVersions[1].present /\ filterVersions[2].present
    /\ filterVersions[1].lastCheckTime + filterVersions[1].expires * 1000 = now
    /\ filterVersions[2].lastCheckTime + filterVersions[2].expires * 1000 > now
    /\ HasTaskWith(sel.tasks, 1, TRUE)
    /\ ~HasTask(sel.tasks, 2)

\* C5: in a non-forced autoUpdateFilters cycle every filter with diffPath set
\* that is also expired is in the merged task list with force = true (and not
\* with force = false), and the same holds when the expired set is combined
\* before the diff-path set.
C5_ForceOverridesPatch ==
    (sel.op = "autoUpdateFilters" /\ ~sel.force) =>
        LET all == Details(installed, FALSE)
            swapped == UniqueFilters(<<>>, selectExpiredFilters(all, updatePeriod)
                                              \o selectFiltersWithDiffPath(all))
        IN  \A id \in InstalledIds :
                (/\ filterVersions[id].present
                 /\ filterVersions[id].diffPath
                 /\ ExpiredAsSpecified(id)) =>
                    /\ HasTaskWith(sel.tasks, id, TRUE)
                    /\ ~HasTaskWith(sel.tasks, id, FALSE)
                    /\ HasTaskWith(swapped, id, TRUE)
                    /\ ~HasTaskWith(swapped, id, FALSE)

\* C5 witness: filter 1 has a diffPath and is expired, filter 2 has a diffPath
\* and is not expired; the merged list forces 1 and patches 2
C5_Witness ==
    /\ sel.op = "autoUpdateFilters" /\ ~sel.force
    /\ filterVersions[1].present /\ filterVersions[1].diffPath
    /\ ExpiredAsSpecified(1)
    /\ filterVersions[2].present /\ filterVersions[2].diffPath
    /\ ~ExpiredAsSpecified(2)
    /\ HasTaskWith(sel.tasks, 1, TRUE)
    /\ HasTaskWith(sel.tasks, 2, FALSE)

\* C9: selectFiltersIdsToUpdate keeps a filter id if and only if the filter is
\* custom, or has no version record, or was last checked more than 5 minutes
\* ago.
C9_RecencyThrottling ==
    sel.op = "selectFiltersIdsToUpdate" =>
        \A id \in InstalledIds :
            Includes(sel.ids, id) <=>
                \/ isCustomFilter(id)
                \/ ~filterVersions[id].present
                \/ now - filterVersions[id].lastCheckTime > 5 * Minute

\* C9 witness: the custom filter was checked just now and is kept, built-in
\* filter 1 was checked 4 minutes ago and is dropped, built-in filter 2 was
\* checked 6 minutes ago and is kept
C9_Witness ==
    /\ sel.op = "selectFiltersIdsToUpdate"
    /\ filterVersions[1000].present /\ filterVersions[1000].lastCheckTime = now
    /\ filterVersions[1].present /\ now - filterVersions[1].lastCheckTime = 4 * Minute
    /\ filterVersions[2].present /\ now - filterVersions[2].lastCheckTime = 6 * Minute
    /\ sel.ids = <<2, 1000>>

\* The number of tasks of a list that target filter id
TasksFor(tasks, id) == Cardinality({i \in DOMAIN tasks : tasks[i].filterId = id})

\* C16: the task list of autoUpdateFilters(true) has exactly one task for every
\* installed and enabled filter, with force = true, and no other task,
\* whatever the version store holds.
C16_ForcedCycle ==
    (sel.op = "autoUpdateFilters" /\ sel.force) =>
        /\ \A id \in InstalledIds :
              TasksFor(sel.tasks, id) = 1 /\ HasTaskWith(sel.tasks, id, TRUE)
        /\ \A i \in DOMAIN sel.tasks :
              sel.tasks[i].filterId \in InstalledIds /\ sel.tasks[i].force

\* C16 witness: a forced selection over a filter without a record, a filter
\* just checked that has no patch feed, and a filter just checked that has one
C16_Witness ==
    /\ sel.op = "autoUpdateFilters" /\ sel.force
    /\ filterVersions[1] = NoVersion
    /\ filterVersions[2].present /\ filterVersions[2].lastCheckTime = now
          /\ ~filterVersions[2].diffPath
    /\ filterVersions[1000].present /\ filterVersions[1000].lastCheckTime = now
          /\ filterVersions[1000].diffPath
    /\ sel.tasks = Details(<<1, 2, 1000>>, TRUE)

\* C21: a filter without a version record is returned by selectExpiredFilters
\* as a task with force = true, for every update period, and is kept by
\* selectFiltersIdsToUpdate, be it custom or built-in.
C21_NoRecordAlwaysSelected ==
    \A id \in InstalledIds :
        ~filterVersions[id].present =>
            /\ sel.op = "selectExpiredFilters" =>
                  HasTaskWith(sel.tasks, id, TRUE) /\ ~HasTaskWith(sel.tasks, id, FALSE)
            /\ sel.op = "selectFiltersIdsToUpdate" => Includes(sel.ids, id)

\* C21 witness: with a fixed update period, built-in filter 1 has no record
\* and the two other filters were checked just now; selectExpiredFilters
\* returns filter 1 alone, forced
C21_Witness ==
    /\ sel.op = "selectExpiredFilters"
    /\ updatePeriod = 5 * Minute
    /\ filterVersions[1] = NoVersion
    /\ filterVersions[2].present /\ filterVersions[2].lastCheckTime = now
    /\ filterVersions[1000].present /\ filterVersions[1000].lastCheckTime = now
    /\ sel.tasks = Details(<<1>>, TRUE)

\* C22: the task list autoUpdateFilters hands to updateFilters, forced or not,
\* has at most one task per filter id, and only tasks of installed and enabled
\* filters (whose list has no duplicates).
C22_OneTaskPerFilter ==
    (sel.op = "autoUpdateFilters" /\ NoDup(installed)) =>
        /\ \A id \in FilterIds : TasksFor(sel.tasks, id) <= 1
        /\ \A i \in DOMAIN sel.tasks : sel.tasks[i].filterId \in InstalledIds

\* C22 witness: not forced, every filter has a patch feed and is expired, so
\* each is selected twice and merged into one task
C22_Witness ==
    /\ sel.op = "autoUpdateFilters" /\ ~sel.force
    /\ \A id \in InstalledIds :
          /\ filterVersions[id].present /\ filterVersions[id].diffPath
          /\ IsExpired(filterVersions[id], updatePeriod, now)
    /\ Len(sel.tasks) = 3
    /\ \A id \in InstalledIds : TasksFor(sel.tasks, id) = 1

-----------------------------------------------------------------------------
(* Properties of the update orchestrator *)

FailedIn(cycle, id) ==
    \E i \in DOMAIN cycle.tasks :
        cycle.tasks[i].filterId = id /\ cycle.state[i] \in {"null", "rejected"}

SucceededIds(cycle) ==
    {cycle.tasks[i].filterId : i \in {j \in DOMAIN cycle.tasks : cycle.state[j] = "ok"}}

\* The list a finished cycle returns holds the succeeded filters, each once
ResultIsSuccesses(cycle) ==
    /\ SeqToSet(cycle.result) = SucceededIds(cycle)
    /\ NoDup(cycle.result)

\* A step taken by the cycle of caller c
StepOf(c) == cycles'[c] # cycles[c]

SameButLastCheckTime(r1, r2) ==
    [r1 EXCEPT !.lastCheckTime = 0] = [r2 EXCEPT !.lastCheckTime = 0]

\* C1 (as claimed): a cycle returns exactly the metadata of its succeeded
\* tasks, and no step of the cycle changes any field, lastCheckTime included,
\* of the version record of a filter whose task failed.
C1_FailedRecordUntouched ==
    /\ [](\A c \in CycleSlots : cycles[c].pc = "done" => ResultIsSuccesses(cycles[c]))
    /\ [][\A c \in CycleSlots, id \in FilterIds :
            (StepOf(c) /\ FailedIn(cycles'[c], id)) =>
                filterVersions'[id] = filterVersions[id]]_vars

\* C1 (amended): a cycle returns exactly the metadata of its succeeded tasks,
\* and the only change the cycle makes to the version record of a filter whose
\* task failed is the refresh of lastCheckTime to the current time, made when
\* the cycle returns.
C1_PartialFailureIsolation ==
    /\ [](\A c \in CycleSlots : cycles[c].pc = "done" => ResultIsSuccesses(cycles[c]))
    /\ [][\A c \in CycleSlots, id \in FilterIds :
            (StepOf(c) /\ FailedIn(cycles'[c], id)) =>
                /\ SameButLastCheckTime(filterVersions[id], filterVersions'[id])
                /\ filterVersions'[id].lastCheckTime # filterVersions[id].lastCheckTime =>
                      /\ cycles'[c].pc = "done"
                      /\ filterVersions'[id].lastCheckTime = now]_vars

\* C1 witness: of three tasks the second failed; the cycle returned filters 1
\* and 1000, and filter 2 keeps its old version with lastCheckTime refreshed
C1_Witness ==
    /\ cycles[AutoCaller].pc = "done"
    /\ TaskIds(cycles[AutoCaller].tasks) = <<1, 2, 1000>>
    /\ cycles[AutoCaller].state = <<"ok", "null", "ok">>
    /\ cycles[AutoCaller].result = <<1, 1000>>
    /\ cycles[CheckCaller].pc = "idle"
    /\ now = (MaxMinutes + 1) * Minute
    /\ filterVersions[2].version = 1
    /\ filterVersions[2].lastCheckTime = now

InFlightFor(c, id) ==
    /\ cycles[c].pc = "tasks"
    /\ \E i \in DOMAIN cycles[c].tasks :
          cycles[c].tasks[i].filterId = id /\ cycles[c].state[i] = "inflight"

\* C2 (as claimed): two update cycles never have tasks in flight at the same
\* time for the same filter id.
C2_NoOverlappingCycles ==
    \A id \in FilterIds : ~(InFlightFor(AutoCaller, id) /\ InFlightFor(CheckCaller, id))

\* The step in which the cycle of caller c returns to its caller
Returns(c) == cycles[c].pc # "done" /\ cycles'[c].pc = "done"

\* The step in which caller c makes its call
Calls(c) == cycles[c].pc = "idle" /\ cycles'[c].pc # "idle"

\* C14 (as claimed): when checkForFiltersUpdates returns, every id it was
\* given that has a version record, the ids skipped as recently checked
\* included, has lastCheckTime = now, and all its tasks have finished.
C14_CandidatesRefreshed ==
    [][Returns(CheckCaller) =>
          /\ AllSettled(cycles[CheckCaller])
          /\ \A id \in SeqToSet(cycles'[CheckCaller].candidates) :
                filterVersions'[id].present =>
                    filterVersions'[id].lastCheckTime = now]_vars

\* No task, no catalog load, no result
NothingDone(cycle) ==
    /\ cycle.tasks = <<>>
    /\ cycle.loads = 0
    /\ cycle.result = <<>>

\* C15: a call autoUpdateFilters(false) made while filtering is disabled or
\* the update period is Disabled returns at once with an empty list, without
\* task, catalog load, write to the version store or engine signal; a call
\* autoUpdateFilters(true) starts a cycle with a task for every installed
\* filter whatever the settings are.
C15_DisabledShortCircuit ==
    [][Calls(AutoCaller) =>
          /\ (~cycles'[AutoCaller].force
                 /\ (filteringDisabled \/ updatePeriod = FiltersUpdateTimeDisabled)) =>
                /\ cycles'[AutoCaller].pc = "done"
                /\ NothingDone(cycles'[AutoCaller])
                /\ filterVersions' = filterVersions
                /\ engine' = engine
          /\ cycles'[AutoCaller].force =>
                /\ cycles'[AutoCaller].pc \in {"loadMetadata", "tasks"}
                /\ SeqToSet(TaskIds(cycles'[AutoCaller].tasks)) = SeqToSet(installed)]_vars

\* C15 witness: filtering is disabled, every filter is stale and has a patch
\* feed, and autoUpdateFilters(false) has returned without having done anything
C15_Witness ==
    /\ cycles[AutoCaller].kind = "auto"
    /\ cycles[AutoCaller].pc = "done"
    /\ ~cycles[AutoCaller].force
    /\ filteringDisabled
    /\ NothingDone(cycles[AutoCaller])
    /\ \A id \in FilterIds : filterVersions[id] = VersionRecord(1, 240, 0, 0, TRUE)
    /\ engine = IdleEngine

\* Some task of the list is forced and targets a built-in filter
HasForcedBuiltIn(tasks) ==
    \E i \in DOMAIN tasks : tasks[i].force /\ tasks[i].filterId < CUSTOM_FILTERS_START_ID

Started(cycle) == \E i \in DOMAIN cycle.state : cycle.state[i] # "waiting"

\* C17: a cycle with a forced task for a built-in filter loads the metadata
\* catalog exactly once and starts no task while the load is in flight; a
\* cycle without such a task never loads the catalog.
C17_CatalogRefreshOrdering ==
    \A c \in CycleSlots :
        cycles[c].pc # "idle" =>
            /\ cycles[c].loads = IF HasForcedBuiltIn(cycles[c].tasks) THEN 1 ELSE 0
            /\ cycles[c].pc = "loadMetadata" => ~Started(cycles[c])
            /\ ~HasForcedBuiltIn(cycles[c].tasks) => cycles[c].pc # "loadMetadata"

\* C17 witness: autoUpdateFilters(true) has loaded the catalog once and then
\* run its three tasks, while checkForFiltersUpdates([1000]), forced but for a
\* custom filter only, has run its task without loading it
C17_Witness ==
    /\ cycles[AutoCaller].pc = "done"
    /\ cycles[AutoCaller].force
    /\ Len(cycles[AutoCaller].tasks) = 3
    /\ cycles[AutoCaller].loads = 1
    /\ cycles[CheckCaller].pc = "done"
    /\ TaskIds(cycles[CheckCaller].tasks) = <<1000>>
    /\ cycles[CheckCaller].loads = 0

\* C18 (as claimed): an entry point that returns from its cycle has called
\* Engine.debounceUpdate exactly if the list it returns is not empty.
C18_RebuildSignal ==
    [][\A c \in CycleSlots :
          Returns(c) => (engine'.calls # engine.calls <=> cycles'[c].result # <<>>)]_vars

\* A filter that a non-forced cycle has no reason to touch: it has a record,
\* no patch feed, and is not expired
UpToDateWithoutPatchFeed(id) ==
    /\ filterVersions[id].present
    /\ ~filterVersions[id].diffPath
    /\ ~ExpiredAsSpecified(id)

C28_EventualFullRefresh == <>HasTaskWith(cycles[AutoCaller].tasks, 1, TRUE)

-----------------------------------------------------------------------------
(* Properties of the patch service *)

\* C10 (as claimed): whatever fails in one filter's task, reading the cached
\* content included, the cycle itself (update) does not fail.
C10_CycleNeverFails == patch.pc # "rejected"

\* C11 (as claimed): update() has returned to its caller, resolved or rejected,
\* only when every tryToApplyPatch it started has ended.
C11_AllSettledJoin ==
    patch.pc \in {"resolved", "rejected"} =>
        \A i \in DOMAIN patch.tasks : TaskEnded(patch.tasks[i])

\* The failures the executor must undo: patch application, directive
\* resolution, header parsing
ContentFailures == {"applyPatch", "resolveDirectives", "parseFilterDataFromHeader"}

\* The stores hold for filter id what they held when update() was called
StoresUnchangedFor(id) ==
    /\ filters[id] = patch.before.filters[id]
    /\ rawFilters[id] = patch.before.rawFilters[id]
    /\ filterVersions[id] = patch.before.filterVersions[id]

\* C12 (as claimed): a task that failed in patch application, directive
\* resolution or header parsing has left the resolved content, the raw content
\* and the version record of its filter as they were before the task.
C12_NoPartialCommit ==
    \A i \in DOMAIN patch.tasks :
        (patch.tasks[i].pc = "caught" /\ patch.tasks[i].failure \in ContentFailures) =>
            StoresUnchangedFor(patch.tasks[i].filterId)

\* C13 (as claimed): every filter's version record has
\* lastCheckTime >= lastUpdateTime, also right after tryToApplyPatch has
\* committed a record.
C13_CheckNotBeforeUpdate ==
    \A id \in FilterIds :
        filterVersions[id].present =>
            filterVersions[id].lastCheckTime >= filterVersions[id].lastUpdateTime

\* The tasks of update() that have run to the end of the try block
DoneTasks == {i \in DOMAIN patch.tasks : patch.tasks[i].pc = "done"}

\* Task i has written, in this step or before it, the raw content, the
\* resolved content and the version record of its filter
AllWrittenBy(i) ==
    LET id == patch.tasks[i].filterId
    IN  /\ rawFilters'[id] = PatchedContent
        /\ filters'[id] = PatchedContent
        /\ filterVersions'[id].present
        /\ filterVersions'[id].version = 2
        /\ filterVersions'[id].lastCheckTime = now

\* C25: tryToApplyPatch calls Engine.debounceUpdate once, in the step that
\* ends a task whose three writes have been made; the calls made are as many
\* as the tasks that ran to their end, so a task that failed or returned
\* early has sent no signal.
C25_CommitBeforeSignal ==
    /\ [](engine.calls = Cardinality(DoneTasks))
    /\ [][engine'.calls # engine.calls =>
             \E i \in DOMAIN patch.tasks :
                 /\ patch.tasks[i].pc = "setFilters"
                 /\ patch'.tasks[i].pc = "done"
                 /\ AllWrittenBy(i)
                 /\ engine'.calls = engine.calls + 1]_vars

\* C25 witness: filter 1 was patched and signalled, filter 2 failed at the
\* header parse after both content writes, custom filter 1000 has no metadata
\* and returned early; one signal was sent
C25_Witness ==
    /\ Len(patch.tasks) = 3
    /\ patch.tasks[1].pc = "done"
    /\ patch.tasks[2].pc = "caught"
    /\ patch.tasks[2].failure = "parseFilterDataFromHeader"
    /\ patch.tasks[3].pc = "early"
    /\ engine.calls = 1

\* C27 (as claimed): a filter whose version record had diffPath set when
\* update() was called still has diffPath set in the record that its
\* successful tryToApplyPatch has committed.
C27_PatchEligibilityPreserved ==
    \A i \in DoneTasks :
        patch.before.filterVersions[patch.tasks[i].filterId].diffPath =>
            /\ filterVersions[patch.tasks[i].filterId].present
            /\ filterVersions[patch.tasks[i].filterId].diffPath

====
